---- MODULE Spec2Model ----
(***************************************************************************)
(* Model of 2_Scripts/GEE_Python/landsat_nvdi.py: the yearly NDVI export   *)
(* driver (main, export_ndvi, combine_collections, get_landsat_collection, *)
(* add_ndvi, mask_clouds) and the process-level exception handlers.        *)
(*                                                                         *)
(* The remote platform is the environment: every request that crosses the  *)
(* boundary (a sensor fetch, the size query, the creation of the export    *)
(* task, task.start) either answers or raises, chosen nondeterministically.*)
(***************************************************************************)
EXTENDS Integers, Sequences, FiniteSets

\* ------------------------------------------------------------------ bounds
\* Largest number of images one sensor's filtered collection holds.
MaxImages == 1
\* Width in bits of the quality-assurance values enumerated for mask_clouds.
QABits == 6

\* ----------------------------------------------------- user configurations
FirstYear == 1985
StopYear == 2021
StepYears == 5
\* START_YEARS = list(range(1985, 2021, 5))
START_YEARS ==
    [i \in 1..(((StopYear - 1 - FirstYear) \div StepYears) + 1) |->
        FirstYear + (i - 1) * StepYears]

\* ee.Geometry.Rectangle([-76.5, 35.5, -75.5, 36.5]), in tenths of a degree
REGION == [west |-> -765, south |-> 355, east |-> -755, north |-> 365]
DRIVE_FOLDER == "GEE_Exports"
SCALE == 30
CRS == "EPSG:4326"

\* dict keys in insertion order
SensorKeys == <<"LANDSAT_5", "LANDSAT_7", "LANDSAT_8">>
Sensors == {SensorKeys[i] : i \in DOMAIN SensorKeys}

LANDSAT_COLLECTIONS ==
    [k \in Sensors |->
        CASE k = "LANDSAT_5" -> "LANDSAT/LT05/C02/T1_L2"
          [] k = "LANDSAT_7" -> "LANDSAT/LE07/C02/T1_L2"
          [] k = "LANDSAT_8" -> "LANDSAT/LC08/C02/T1_L2"]

SENSOR_BANDS ==
    [k \in Sensors |->
        IF k = "LANDSAT_8"
        THEN [nir |-> "SR_B5", red |-> "SR_B4", qa |-> "QA_PIXEL"]
        ELSE [nir |-> "SR_B4", red |-> "SR_B3", qa |-> "QA_PIXEL"]]

NoDate == <<0, 0, 0>>

\* --------------------------------------------------------- pure functions
RECURSIVE bitwiseAnd(_, _)
\* qa.bitwiseAnd(m) on non-negative integers
bitwiseAnd(a, b) ==
    IF a = 0 \/ b = 0 THEN 0
    ELSE (a % 2) * (b % 2) + 2 * bitwiseAnd(a \div 2, b \div 2)

RECURSIVE ShiftLeft(_, _)
\* 1 << n
ShiftLeft(x, n) == IF n = 0 THEN x ELSE ShiftLeft(2 * x, n - 1)

cloud_shadow_bit_mask == ShiftLeft(1, 3)
\* mutant: the cloud test reads bit 4 instead of bit 5
clouds_bit_mask_bit4 == ShiftLeft(1, 4)
clouds_bit_mask == ShiftLeft(1, 5)

\* The mask expression of mask_clouds evaluated at one pixel: 1 (keep) or 0.
CloudMask(q) ==
    IF bitwiseAnd(q, cloud_shadow_bit_mask) = 0 /\ bitwiseAnd(q, clouds_bit_mask) = 0
    THEN 1 ELSE 0

\* image.updateMask(mask): a pixel stays valid only where it was valid and
\* the new mask is non-zero.
updateMask(image, mask) == [image EXCEPT !.valid = @ /\ (mask # 0)]

\* An image of a sensor's collection as the remote platform holds it, seen
\* at one pixel: its quality-assurance value and whether the pixel is valid.
RawImage(sensor_key, idx, q, v) ==
    [src   |-> sensor_key,
     collection |-> LANDSAT_COLLECTIONS[sensor_key],
     range |-> <<NoDate, NoDate>>,
     idx   |-> idx,
     bands |-> {SENSOR_BANDS[sensor_key].nir, SENSOR_BANDS[sensor_key].red,
                SENSOR_BANDS[sensor_key].qa},
     qa    |-> q,
     valid |-> v,
     ops   |-> << >>]

mask_clouds(image, sensor_key) ==
    LET qaBand == SENSOR_BANDS[sensor_key].qa
        mask == IF qaBand \in image.bands THEN CloudMask(image.qa) ELSE 0
    IN  [updateMask(image, mask) EXCEPT !.ops = Append(@, <<"mask_clouds", sensor_key>>)]

add_ndvi(image, sensor_key) ==
    [image EXCEPT !.bands = @ \cup {"NDVI"},
                  !.ops = Append(@, <<"add_ndvi", sensor_key,
                                      SENSOR_BANDS[sensor_key].nir,
                                      SENSOR_BANDS[sensor_key].red>>)]

\* ee.ImageCollection([])
EmptyCollection == << >>

\* collection.map(lambda img: mask_clouds(img, sensor_key))
MapMaskClouds(coll, sensor_key) == [i \in DOMAIN coll |-> mask_clouds(coll[i], sensor_key)]

\* collection.map(lambda img: add_ndvi(img, sensor_key))
MapAddNdvi(coll, sensor_key) == [i \in DOMAIN coll |-> add_ndvi(coll[i], sensor_key)]

\* What the remote platform answers to a sensor's request: ok = FALSE is a
\* raised exception, otherwise the n images the date range holds.
RemoteAnswers == [ok : BOOLEAN, n : 0..MaxImages]

\* ee.ImageCollection(collection_id).filterDate(start_date, end_date)
RemoteCollection(sensor_key, start_date, end_date, n) ==
    [i \in 1..n |->
        [RawImage(sensor_key, i, 0, TRUE) EXCEPT !.range = <<start_date, end_date>>]]

\* mutant: the pipeline is not wrapped in try/except
get_landsat_collection_no_try(sensor_key, start_date, end_date, remote) ==
    IF remote.ok
    THEN [raised |-> FALSE, logged |-> FALSE,
          value |-> MapAddNdvi(
                      MapMaskClouds(
                          RemoteCollection(sensor_key, start_date, end_date, remote.n),
                          sensor_key),
                      sensor_key)]
    ELSE [raised |-> TRUE, logged |-> FALSE, value |-> EmptyCollection]

\* mutant: the cloud mask is not mapped over the collection
get_landsat_collection_no_mask(sensor_key, start_date, end_date, remote) ==
    IF remote.ok
    THEN [raised |-> FALSE, logged |-> FALSE,
          value |-> MapAddNdvi(
                      RemoteCollection(sensor_key, start_date, end_date, remote.n),
                      sensor_key)]
    ELSE [raised |-> FALSE, logged |-> TRUE, value |-> EmptyCollection]

get_landsat_collection(sensor_key, start_date, end_date, remote) ==
    IF remote.ok
    THEN [raised |-> FALSE, logged |-> FALSE,
          value |-> MapAddNdvi(
                      MapMaskClouds(
                          RemoteCollection(sensor_key, start_date, end_date, remote.n),
                          sensor_key),
                      sensor_key)]
    ELSE [raised |-> FALSE, logged |-> TRUE, value |-> EmptyCollection]

\* combined.merge(sensor_coll)
merge(a, b) == a \o b

\* mutant: the loop of combine_collections runs over main's sensor subset
CombineKeysFromSubset(subset) ==
    LET F[i \in 0..Len(SensorKeys)] ==
            IF i = 0 THEN << >>
            ELSE IF SensorKeys[i] \in subset THEN Append(F[i - 1], SensorKeys[i])
                 ELSE F[i - 1]
    IN  F[Len(SensorKeys)]

\* The keys combine_collections iterates: LANDSAT_COLLECTIONS.keys(), whatever
\* subset main computed.
CombineKeys(subset) == SensorKeys

\* main's per-year sensor selection
SensorSubset(y) ==
    IF y <= 2012 THEN {"LANDSAT_5"}
    ELSE IF y <= 2013 THEN {"LANDSAT_5", "LANDSAT_7"}
    ELSE {"LANDSAT_7", "LANDSAT_8"}

\* mutant: the file prefix drops the location label
FilePrefixNoLabel(year) == <<"NDVI", year>>
\* f"NDVI_{year}_Albemarle" as its underscore-separated parts
FilePrefix(year) == <<"NDVI", year, "Albemarle">>

\* REGION.toGeoJSON()['coordinates']: the ring of the rectangle's corners
RegionCoordinates(r) ==
    << <<r.west, r.north>>, <<r.west, r.south>>, <<r.east, r.south>>, <<r.east, r.north>> >>

\* mutant: the emptiness check is absent (the export is always attempted)
IsEmptyNever(n) == FALSE
\* collection.size().getInfo() == 0
IsEmpty(n) == n = 0

\* mutant: the top-level handlers log and fall through (exit status 0)
ExitStatusFallThrough(e) == 0
\* __main__: both handlers call sys.exit(1); an exception raised outside the
\* try (module level) ends the interpreter with status 1 as well.
ExitStatus(e) == IF e.type = "none" THEN 0 ELSE 1

\* collection.median(): the images that contribute a value at the pixel are
\* those whose pixel is valid there (masked pixels are left out).
MedianInputs(coll) == {i \in DOMAIN coll : coll[i].valid}

\* ------------------------------------------------------------------ state
VARIABLES
    pc,          \* where the process is
    sessionOK,   \* whether the remote platform accepts the session
    yi,          \* index into START_YEARS of the loop variable y (0 before the loop)
    sensors,     \* main's computed sensor subset
    start_date,  \* export_ndvi: start of the date range
    end_date,    \* export_ndvi: end of the date range
    si,          \* combine_collections: position in the sensor-key loop
    combined,    \* combine_collections: the merged collection
    errors,      \* sensor keys whose fetch error was logged in this invocation
    avail,       \* per sensor key, the number of images the remote answered (-1: no answer)
    composite,   \* export_ndvi: composite_clipped
    phases,      \* the steps the current (or last) export_ndvi invocation went through
    outcome,     \* per year index: how its export_ndvi invocation ended
    sizeCheck,   \* per year index: what the size query returned ("zero"/"nonzero")
    fetches,     \* every get_landsat_collection call made: <<year, sensor_key>>
    invoked,     \* the years export_ndvi was called with, in call order
    tasks,       \* every export task object created, with its start() calls
    exc,         \* the exception that ended the process, if any
    exitCode,    \* process exit status (-1 while running)
    mpc,         \* pixel-level evaluation of the image pipeline: position
    rawImg,      \* pixel-level evaluation: the image as fetched
    maskedImg,   \* pixel-level evaluation: the image after the mapped functions
    medianIn     \* pixel-level evaluation: images contributing to the median

locals == <<start_date, end_date, si, combined, errors, avail, composite>>
history == <<outcome, sizeCheck, fetches, invoked, tasks>>
pixel == <<mpc, rawImg, maskedImg, medianIn>>
vars == <<pc, sessionOK, yi, sensors, locals, phases, history, exc, exitCode, pixel>>

NumYears == Len(START_YEARS)
YearIdx == 1..NumYears
NoExc == [type |-> "none", where |-> "none", yi |-> 0]
NoComposite == [reducer |-> "none", bands |-> << >>, clip |-> "none"]
NoAvail == [k \in Sensors |-> -1]
ExcTypes == {"EEException", "Exception"}

LocalsInit ==
    /\ start_date = NoDate
    /\ end_date = NoDate
    /\ si = 0
    /\ combined = EmptyCollection
    /\ errors = {}
    /\ avail = NoAvail
    /\ composite = NoComposite

\* export_ndvi returned or was left by an exception: its locals are gone
LocalsCleared ==
    /\ start_date' = NoDate
    /\ end_date' = NoDate
    /\ si' = 0
    /\ combined' = EmptyCollection
    /\ errors' = {}
    /\ avail' = NoAvail
    /\ composite' = NoComposite

MainInit ==
    /\ pc = "import"
    /\ yi = 0
    /\ sensors = {}
    /\ LocalsInit
    /\ phases = << >>
    /\ outcome = [i \in YearIdx |-> "pending"]
    /\ sizeCheck = [i \in YearIdx |-> "unknown"]
    /\ fetches = << >>
    /\ invoked = << >>
    /\ tasks = << >>
    /\ exc = NoExc
    /\ exitCode = -1

PixelOff ==
    /\ mpc = "off"
    /\ rawImg = RawImage("LANDSAT_5", 1, 0, TRUE)
    /\ maskedImg = rawImg
    /\ medianIn = {}

Init ==
    /\ sessionOK \in BOOLEAN
    /\ MainInit
    /\ PixelOff

\* Module level (line 26): REGION is built before the try of __main__. With a
\* rejected session the library call may already raise there; nothing catches
\* it and the interpreter exits with status 1.
ModuleImport ==
    /\ pc = "import"
    /\ \/ /\ pc' = "main"
          /\ UNCHANGED <<exc, exitCode>>
       \/ /\ ~sessionOK
          /\ exc' = [type |-> "EEException", where |-> "import", yi |-> 0]
          /\ exitCode' = ExitStatus(exc')
          /\ pc' = "exit"
    /\ UNCHANGED <<sessionOK, yi, sensors, locals, phases, history, pixel>>

\* main: one iteration of "for y in START_YEARS" up to the call export_ndvi(y)
MainNextYear ==
    /\ pc = "main"
    /\ yi < NumYears
    /\ yi' = yi + 1
    /\ LET y == START_YEARS[yi + 1] IN
         IF y < 1984
         THEN /\ outcome' = [outcome EXCEPT ![yi + 1] = "before_availability"]
              /\ UNCHANGED <<pc, sensors, invoked>>
         ELSE /\ sensors' = SensorSubset(y)
              /\ invoked' = Append(invoked, y)
              /\ outcome' = [outcome EXCEPT ![yi + 1] = "running"]
              /\ pc' = "build_range"
    /\ UNCHANGED <<sessionOK, locals, phases, sizeCheck, fetches, tasks, exc, exitCode, pixel>>

\* main: the loop is over, the closing message is printed, the process ends
MainFinish ==
    /\ pc = "main"
    /\ yi = NumYears
    /\ pc' = "exit"
    /\ exitCode' = ExitStatus(exc)
    /\ UNCHANGED <<sessionOK, yi, sensors, locals, phases, history, exc, pixel>>

\* export_ndvi lines 115-120 and combine_collections line 101
ExportBuildRange ==
    /\ pc = "build_range"
    /\ start_date' = <<START_YEARS[yi], 1, 1>>
    /\ end_date' = <<START_YEARS[yi], 12, 31>>
    /\ combined' = EmptyCollection
    /\ si' = 1
    /\ errors' = {}
    /\ avail' = NoAvail
    /\ phases' = <<"build range">>
    /\ pc' = "combine"
    /\ UNCHANGED <<sessionOK, yi, sensors, composite, history, exc, exitCode, pixel>>

\* combine_collections: one iteration of the sensor loop (lines 103-105). An
\* exception get_landsat_collection lets through has no handler before __main__.
CombineFetch ==
    /\ pc = "combine"
    /\ si <= Len(CombineKeys(sensors))
    /\ \E remote \in RemoteAnswers :
         LET key == CombineKeys(sensors)[si]
             r == get_landsat_collection(key, start_date, end_date, remote)
         IN  /\ fetches' = Append(fetches, <<start_date[1], key>>)
             /\ IF r.raised
                THEN /\ exc' = [type |-> "Exception", where |-> "get_landsat_collection", yi |-> yi]
                     /\ exitCode' = ExitStatus(exc')
                     /\ outcome' = [outcome EXCEPT ![yi] = "aborted"]
                     /\ pc' = "exit"
                     /\ LocalsCleared
                     /\ UNCHANGED phases
                ELSE /\ combined' = merge(combined, r.value)
                     /\ errors' = IF r.logged THEN errors \cup {key} ELSE errors
                     /\ avail' = [avail EXCEPT ![key] = IF r.logged THEN -1 ELSE remote.n]
                     /\ si' = si + 1
                     /\ phases' = IF si = 1 THEN Append(phases, "fetch/combine") ELSE phases
                     /\ UNCHANGED <<pc, start_date, end_date, composite, outcome, exc, exitCode>>
    /\ UNCHANGED <<sessionOK, yi, sensors, sizeCheck, invoked, tasks, pixel>>

\* combine_collections line 107: return combined
CombineReturn ==
    /\ pc = "combine"
    /\ si > Len(CombineKeys(sensors))
    /\ pc' = "check"
    /\ UNCHANGED <<sessionOK, yi, sensors, locals, phases, history, exc, exitCode, pixel>>

\* export_ndvi lines 123-125: the size query and the early return. The query
\* is outside every try: when it raises (always so with a rejected session) the
\* exception leaves export_ndvi and main and reaches the handlers of __main__.
CheckSize ==
    /\ pc = "check"
    /\ \/ /\ sessionOK
          /\ LET n == Len(combined) IN
               /\ sizeCheck' = [sizeCheck EXCEPT ![yi] = IF n = 0 THEN "zero" ELSE "nonzero"]
               /\ IF IsEmpty(n)
                  THEN /\ phases' = phases \o <<"check non-empty", "skipped">>
                       /\ outcome' = [outcome EXCEPT ![yi] = "skipped"]
                       /\ pc' = "main"
                       /\ LocalsCleared
                  ELSE /\ phases' = Append(phases, "check non-empty")
                       /\ pc' = "reduce"
                       /\ UNCHANGED <<locals, outcome>>
          /\ UNCHANGED <<sessionOK, yi, sensors, fetches, invoked, tasks, exc, exitCode, pixel>>
       \/ /\ phases' = Append(phases, "check non-empty")
          /\ \E t \in ExcTypes :
               /\ ~sessionOK => t = "EEException"
               /\ exc' = [type |-> t, where |-> "size", yi |-> yi]
          /\ exitCode' = ExitStatus(exc')
          /\ outcome' = [outcome EXCEPT ![yi] = "aborted"]
          /\ pc' = "exit"
          /\ LocalsCleared
          /\ UNCHANGED <<sessionOK, yi, sensors, sizeCheck, fetches, invoked, tasks, pixel>>

\* export_ndvi lines 128-131: median over the NDVI band, clipped to REGION
ReduceClip ==
    /\ pc = "reduce"
    /\ composite' = [reducer |-> "median", bands |-> <<"NDVI">>, clip |-> REGION]
    /\ phases' = Append(phases, "reduce+clip")
    /\ pc' = "submit"
    /\ UNCHANGED <<sessionOK, yi, sensors, start_date, end_date, si, combined, errors, avail,
                   history, exc, exitCode, pixel>>

\* ee.batch.Export.image.toDrive(...) with the arguments of lines 136-143
NewTask(year, image) ==
    [image          |-> image,
     description    |-> FilePrefix(year),
     folder         |-> DRIVE_FOLDER,
     fileNamePrefix |-> FilePrefix(year),
     region         |-> RegionCoordinates(REGION),
     scale          |-> SCALE,
     crs            |-> CRS,
     maxPixels      |-> "1e13",
     year           |-> year,
     state          |-> "UNSUBMITTED",
     starts         |-> 0]

\* export_ndvi lines 134-144: the export task is built, or building it raises;
\* the call is outside every try, so the exception reaches __main__.
PrepareTask ==
    /\ pc = "submit"
    /\ phases' = Append(phases, "submit")
    /\ \/ /\ tasks' = Append(tasks, NewTask(start_date[1], composite))
          /\ pc' = "start"
          /\ UNCHANGED <<locals, outcome, exc, exitCode>>
       \/ /\ \E t \in ExcTypes : exc' = [type |-> t, where |-> "construct", yi |-> yi]
          /\ exitCode' = ExitStatus(exc')
          /\ outcome' = [outcome EXCEPT ![yi] = "aborted"]
          /\ pc' = "exit"
          /\ LocalsCleared
          /\ UNCHANGED tasks
    /\ UNCHANGED <<sessionOK, yi, sensors, sizeCheck, fetches, invoked, pixel>>

\* export_ndvi lines 146-150: task.start() inside try/except, then return
StartTask ==
    /\ pc = "start"
    /\ LET k == Len(tasks) IN
         \/ /\ tasks' = [tasks EXCEPT ![k].starts = @ + 1, ![k].state = "READY"]
            /\ outcome' = [outcome EXCEPT ![yi] = "done"]
            /\ phases' = Append(phases, "done")
         \/ /\ tasks' = [tasks EXCEPT ![k].starts = @ + 1]
            /\ outcome' = [outcome EXCEPT ![yi] = "failed"]
            /\ phases' = Append(phases, "failed")
    /\ pc' = "main"
    /\ LocalsCleared
    /\ UNCHANGED <<sessionOK, yi, sensors, sizeCheck, fetches, invoked, exc, exitCode, pixel>>

Next ==
    \/ ModuleImport
    \/ MainNextYear
    \/ MainFinish
    \/ ExportBuildRange
    \/ CombineFetch
    \/ CombineReturn
    \/ CheckSize
    \/ ReduceClip
    \/ PrepareTask
    \/ StartTask

Spec == Init /\ [][Next]_vars

\* ------------------------------------------ the image pipeline at one pixel
QAValues == 0..(ShiftLeft(1, QABits) - 1)

PixelInit ==
    /\ sessionOK = TRUE
    /\ MainInit
    /\ mpc = "input"
    /\ rawImg \in {RawImage(s, 1, q, v) : s \in Sensors, q \in QAValues, v \in BOOLEAN}
    /\ maskedImg = rawImg
    /\ medianIn = {}

\* line 88: lambda img: mask_clouds(img, sensor_key)
PixelMask ==
    /\ mpc = "input"
    /\ maskedImg' = mask_clouds(rawImg, rawImg.src)
    /\ mpc' = "masked"
    /\ UNCHANGED <<pc, sessionOK, yi, sensors, locals, phases, history, exc, exitCode,
                   rawImg, medianIn>>

\* line 89: lambda img: add_ndvi(img, sensor_key)
PixelNdvi ==
    /\ mpc = "masked"
    /\ maskedImg' = add_ndvi(maskedImg, rawImg.src)
    /\ mpc' = "ndvi"
    /\ UNCHANGED <<pc, sessionOK, yi, sensors, locals, phases, history, exc, exitCode,
                   rawImg, medianIn>>

\* line 128: collection.median() over the collection holding the image
PixelMedian ==
    /\ mpc = "ndvi"
    /\ medianIn' = MedianInputs(<<maskedImg>>)
    /\ mpc' = "reduced"
    /\ UNCHANGED <<pc, sessionOK, yi, sensors, locals, phases, history, exc, exitCode,
                   rawImg, maskedImg>>

PixelNext ==
    \/ PixelMask
    \/ PixelNdvi
    \/ PixelMedian

PixelSpec == PixelInit /\ [][PixelNext]_vars

\* ---------------------------------------------------------------- helpers
Range(seq) == {seq[i] : i \in DOMAIN seq}
TasksOf(y) == {k \in DOMAIN tasks : tasks[k].year = y}
FetchesOf(y, key) == {k \in DOMAIN fetches : fetches[k] = <<y, key>>}
ImagesFrom(coll, key) == {k \in DOMAIN coll : coll[k].src = key}
Ended(i) == outcome[i] \notin {"pending", "running"}
Bit(q, n) == (q \div ShiftLeft(1, n)) % 2

\* ----------------------------------------------------------------- claims

\* C1: per-year fault isolation. With the session accepted, whenever a step of
\* year y's flow failed (task.start raised, or the size query or the task
\* construction raised), the run that has ended has invoked export_ndvi for
\* every configured year after y.
C1_PerYearFaultIsolation ==
    (sessionOK /\ pc = "exit") =>
        \A i \in YearIdx :
            outcome[i] \in {"failed", "aborted"} =>
                \A j \in YearIdx : j > i => START_YEARS[j] \in Range(invoked)

\* C2: a task whose start() raised leaves its year in state failed (the
\* exception is caught in export_ndvi), and once the run has ended every
\* configured year after a failed year has been attempted.
C2_StartFailureIsolated ==
    /\ \A k \in DOMAIN tasks :
           (tasks[k].starts > 0 /\ tasks[k].state = "UNSUBMITTED") =>
               \E i \in YearIdx : START_YEARS[i] = tasks[k].year /\ outcome[i] = "failed"
    /\ (sessionOK /\ pc = "exit") =>
           \A i \in YearIdx :
               outcome[i] = "failed" =>
                   \A j \in YearIdx : j > i => START_YEARS[j] \in Range(invoked)

\* C3: no export task exists, and none was started, for a year whose size
\* query returned 0.
C3_NoTaskForEmptyYear ==
    \A i \in YearIdx :
        sizeCheck[i] = "zero" =>
            /\ TasksOf(START_YEARS[i]) = {}
            /\ outcome[i] = "skipped"

C3_Witness ==
    /\ pc = "exit"
    /\ sizeCheck[1] = "zero"
    /\ outcome[2] = "done"
    /\ Len(tasks) > 0

\* The export parameters of lines 134-143 for year y.
TaskParamsOK(t, y) ==
    /\ t.description = <<"NDVI", y, "Albemarle">>
    /\ t.fileNamePrefix = <<"NDVI", y, "Albemarle">>
    /\ t.scale = SCALE
    /\ t.crs = CRS
    /\ t.folder = DRIVE_FOLDER
    /\ Range(t.region) = {REGION.west, REGION.east} \X {REGION.south, REGION.north}
    /\ Len(t.region) = 4

C5_CombineNeverRaises ==
    /\ exc.where # "get_landsat_collection"
    /\ pc = "check" =>
           /\ \A s \in Sensors :
                  IF s \in errors
                  THEN ImagesFrom(combined, s) = {} /\ avail[s] = -1
                  ELSE avail[s] >= 0 /\ Cardinality(ImagesFrom(combined, s)) = avail[s]
           /\ errors = Sensors => Len(combined) = 0

C5_Witness ==
    /\ pc = "check"
    /\ errors = Sensors
    /\ Len(combined) = 0

\* C6: with the session rejected no export task is ever created or started and
\* a run that ends does so with exit status 1; any exception that ends the
\* process gives exit status 1.
C6_AuthFailureFatal ==
    /\ ~sessionOK => tasks = << >>
    /\ (pc = "exit" /\ ~sessionOK) => (exitCode = 1 /\ exc.type # "none")
    /\ (pc = "exit" /\ exc.type # "none") => exitCode = 1

C6_Witness ==
    /\ pc = "exit"
    /\ ~sessionOK
    /\ exc = [type |-> "EEException", where |-> "size", yi |-> 1]
    /\ exitCode = 1
    /\ tasks = << >>

\* C7: every image of the combined collection went through mask_clouds and
\* then add_ndvi, both with the sensor key of the collection it came from, and
\* carries the band NDVI.
C7_MergedImagesMaskedThenNdvi ==
    \A k \in DOMAIN combined :
        LET im == combined[k] IN
            /\ Len(im.ops) = 2
            /\ im.ops[1] = <<"mask_clouds", im.src>>
            /\ im.ops[2][1] = "add_ndvi"
            /\ im.ops[2][2] = im.src
            /\ "NDVI" \in im.bands

C7_Witness ==
    /\ pc = "check"
    /\ \A s \in Sensors : ImagesFrom(combined, s) # {}

PhaseOrders ==
    {<<"build range", "fetch/combine", "check non-empty", "skipped">>,
     <<"build range", "fetch/combine", "check non-empty", "reduce+clip", "submit", "done">>,
     <<"build range", "fetch/combine", "check non-empty", "reduce+clip", "submit", "failed">>}

IsPrefix(a, b) == Len(a) <= Len(b) /\ \A k \in DOMAIN a : a[k] = b[k]

\* C8: with the session accepted, every export_ndvi invocation follows the
\* state order, every invocation that has ended did so in done, skipped or
\* failed, and a run that has ended has processed every configured year once,
\* in list order.
C8_StateOrderAndTermination ==
    sessionOK =>
        /\ \E o \in PhaseOrders : IsPrefix(phases, o)
        /\ \A i \in YearIdx : Ended(i) => outcome[i] \in {"done", "skipped", "failed"}
        /\ pc = "exit" => invoked = START_YEARS

\* The number of get_landsat_collection calls made once the loop of main is
\* at year index yi and combine_collections at position si, if every year's
\* combine asks each configured sensor key once.
ExpectedFetchCount ==
    IF yi = 0 THEN 0
    ELSE IF pc = "build_range" THEN Len(SensorKeys) * (yi - 1)
    ELSE IF pc = "combine" THEN Len(SensorKeys) * (yi - 1) + (si - 1)
    ELSE Len(SensorKeys) * yi

\* C9: whatever subset main computed, the get_landsat_collection calls of the
\* run are, year after year, one call for each of the three configured sensor
\* keys (LANDSAT_5, LANDSAT_7, LANDSAT_8): once combine_collections has
\* returned for a year, each key was fetched exactly once for it.
C9_SensorSubsetInert ==
    /\ Len(fetches) = ExpectedFetchCount
    /\ \A k \in DOMAIN fetches :
           fetches[k] = <<START_YEARS[((k - 1) \div 3) + 1],
                          <<"LANDSAT_5", "LANDSAT_7", "LANDSAT_8">>[((k - 1) % 3) + 1]>>

C9_Witness ==
    /\ pc = "check"
    /\ START_YEARS[yi] = 2020
    /\ sensors = {"LANDSAT_7", "LANDSAT_8"}
    /\ Cardinality(FetchesOf(2020, "LANDSAT_5")) = 1
    /\ Cardinality(FetchesOf(1985, "LANDSAT_8")) = 1

\* C10: a pixel that was valid stays valid under mask_clouds exactly when
\* bits 3 and 5 of its quality-assurance value are both zero; a pixel with
\* bit 3 or bit 5 set is invalid afterwards and is no input of the median.
C10_MaskBits3And5 ==
    mpc \in {"masked", "ndvi", "reduced"} =>
        /\ rawImg.valid =>
               (maskedImg.valid <=> (Bit(rawImg.qa, 3) = 0 /\ Bit(rawImg.qa, 5) = 0))
        /\ (Bit(rawImg.qa, 3) = 1 \/ Bit(rawImg.qa, 5) = 1) => ~maskedImg.valid
        /\ (mpc = "reduced" /\ (Bit(rawImg.qa, 3) = 1 \/ Bit(rawImg.qa, 5) = 1)) =>
               medianIn = {}
        /\ (mpc = "reduced" /\ rawImg.valid /\ Bit(rawImg.qa, 3) = 0 /\ Bit(rawImg.qa, 5) = 0) =>
               medianIn = {1}

C10_Witness ==
    /\ mpc = "reduced"
    /\ rawImg.valid
    /\ rawImg.qa = 32
    /\ ~maskedImg.valid
    /\ medianIn = {}

====
